---------------------------- MODULE Spec2Model ----------------------------
(***************************************************************************)
(* passphrase_bitcoin: 256-bit entropy -> binary.txt -> BIP-39 mnemonic.   *)
(*                                                                         *)
(* Strings are sequences of one-character strings, byte buffers are        *)
(* sequences of 0..255, bit sequences ([]bool) are sequences of BOOLEAN.   *)
(* Go indexes from 0, the sequences here from 1.                           *)
(***************************************************************************)
EXTENDS Integers, Sequences, FiniteSets, TLC

VARIABLES
    \* ---- one invocation of main ----
    flags,        \* the parsed command line: genBinary, useBinary, showHelp, showQRCode, inspectWord
    wordListText, \* the name of the text the build embeds as embed/english.txt (Embedded)
    wordList,     \* main's local wordList, by the name of the text it was loaded from (Words)
    file,         \* binary.txt on disk: [exists, content]
    pc,           \* main's position
    out,          \* what the invocation has printed, in order
    exit,         \* how the invocation ended ("running" until it does)
    written,      \* history: the entropy buffers this invocation handed to writeBinaryFile
    \* ---- the helper functions, called on their own ----
    buf,          \* a byte buffer
    bits,         \* bytesToBits(buf)
    back,         \* bitsToBytes(bits)
    content,      \* a content of binary.txt
    loaded,       \* readBinaryFile's result on content
    cs,           \* checksumBits' result on the loaded bits
    phrase,       \* generateMnemonic's result
    cpc,          \* position in the chain of helper calls
    origin,       \* whether the chain started from a byte buffer or from a file content
    token,        \* showWordInfo's input
    info          \* what showWordInfo printed

mainVars == <<flags, wordListText, wordList, file, pc, out, exit, written>>
codecVars == <<buf, bits, back, content, loaded, cs, phrase, cpc, origin>>
inspectVars == <<token, info>>
vars == <<mainVars, codecVars, inspectVars>>

-----------------------------------------------------------------------------
\* Characters

SP == " "
LF == "\n"
TAB == "\t"
CR == "\r"
BOM == "BOM"   \* the rune U+FEFF, one character of a Go string
Digit(b) == IF b THEN "1" ELSE "0"
Letters == <<"a","b","c","d","e","f","g","h","i","j","k","l","m",
             "n","o","p","q","r","s","t","u","v","w","x","y","z">>
Upper == <<"A","B","C","D","E","F","G","H","I","J","K","L","M",
           "N","O","P","Q","R","S","T","U","V","W","X","Y","Z">>
WhiteSpace == {SP, LF, TAB, CR}

Min(S) == CHOOSE x \in S : \A y \in S : x <= y

-----------------------------------------------------------------------------
\* Bit codec

\* bytes -> []bool, most significant bit first
bytesToBits(b) ==
    [k \in 1..(8 * Len(b)) |->
        ((b[((k - 1) \div 8) + 1] \div (2 ^ (7 - ((k - 1) % 8)))) % 2) = 1]

\* bitsToBytes packing each byte least significant bit first: 1 << uint(i%8)
bitsToBytes_lsbFirst(bs) ==
    LET n == (Len(bs) + 7) \div 8
        BitAt(i) == IF i <= Len(bs) /\ bs[i] THEN 2 ^ ((i - 1) % 8) ELSE 0
    IN  [j \in 1..n |->
            BitAt(8*j - 7) + BitAt(8*j - 6) + BitAt(8*j - 5) + BitAt(8*j - 4)
          + BitAt(8*j - 3) + BitAt(8*j - 2) + BitAt(8*j - 1) + BitAt(8*j)]

\* []bool -> bytes; the last byte is padded with zero bits
bitsToBytes(bs) ==
    LET n == (Len(bs) + 7) \div 8
        BitAt(i) == IF i <= Len(bs) /\ bs[i] THEN 2 ^ (7 - ((i - 1) % 8)) ELSE 0
    IN  [j \in 1..n |->
            BitAt(8*j - 7) + BitAt(8*j - 6) + BitAt(8*j - 5) + BitAt(8*j - 4)
          + BitAt(8*j - 3) + BitAt(8*j - 2) + BitAt(8*j - 1) + BitAt(8*j)]

\* []bool -> int: n <<= 1; n |= 1 for every set bit (callers pass 11 bits)
RECURSIVE bitsToInt(_)
bitsToInt(bs) ==
    IF bs = <<>> THEN 0
    ELSE 2 * bitsToInt(SubSeq(bs, 1, Len(bs) - 1)) + (IF bs[Len(bs)] THEN 1 ELSE 0)

-----------------------------------------------------------------------------
\* binary.txt

\* bufio.MaxScanTokenSize: the longest line bufio.NewScanner's default buffer holds
MaxScanTokenSize == 65536

\* writeBinaryFile's groupCount when bit i (1-based) has been written and
\* before the test groupCount == 6: it grows by one at every 11th bit and is
\* set back to 0 whenever it reaches 6, that is at every 66th bit.
groupCountAt(i) == IF i % 66 = 0 THEN 6 ELSE (i \div 11) % 6

\* What one round of writeBinaryFile's loop writes for bit i (1-based)
writeBit(bs, i) ==
    <<Digit(bs[i])>>
    \o (IF i % 11 = 0 THEN <<SP>> ELSE <<>>)
    \o (IF groupCountAt(i) = 6 THEN <<LF>> ELSE <<>>)

\* What the rounds lo..hi of the loop write
RECURSIVE writeRange(_, _, _)
writeRange(bs, lo, hi) ==
    IF lo > hi THEN <<>>
    ELSE IF lo = hi THEN writeBit(bs, lo)
    ELSE LET mid == (lo + hi) \div 2
         IN  writeRange(bs, lo, mid) \o writeRange(bs, mid + 1, hi)

\* What writeBinaryFile leaves in the file when os.Create and Flush succeed:
\* the loop's output, and a newline if groupCount is not 0 after the loop.
writeBinaryFile(entropy) ==
    LET bs == bytesToBits(entropy)
        groupCount == IF bs = <<>> THEN 0 ELSE groupCountAt(Len(bs)) % 6
    IN  writeRange(bs, 1, Len(bs)) \o (IF groupCount # 0 THEN <<LF>> ELSE <<>>)

\* The '0' and '1' characters of s as bits; every other character adds nothing.
scanBits(s) ==
    LET d == SelectSeq(s, LAMBDA c : c \in {"0", "1"})
    IN  [i \in 1..Len(d) |-> d[i] = "1"]

\* readBinaryFile on an opened file. The Scanner yields the lines in order and
\* stops with ErrTooLong at the first line that has MaxScanTokenSize bytes or
\* more before its newline (or the end of the file); the bits of the lines
\* before it have been appended by then.
readBinaryFile(f) ==
    LET NLs == {i \in 1..Len(f) : f[i] = LF}
        Starts == {1} \cup {i + 1 : i \in NLs}
        EndOf(s) == Min({i \in NLs : i >= s} \cup {Len(f) + 1})
        Long == {s \in Starts : EndOf(s) - s >= MaxScanTokenSize}
    IN  IF Long = {}
        THEN [bits |-> scanBits(f), err |-> "nil"]
        ELSE [bits |-> scanBits(SubSeq(f, 1, Min(Long) - 1)), err |-> "ErrTooLong"]

\* sha256.Sum256: some fixed function from byte buffers to 32 bytes. Nothing
\* here depends on the digest's value beyond its being a function of the input.
Sum256(e) ==
    [j \in 1..32 |->
        IF e = <<>> THEN (227 + 101 * j) % 256
        ELSE (131 * Len(e) + 17 * j + e[1] + 3 * e[Len(e)] + 7 * e[(j % Len(e)) + 1]) % 256]

\* checksumBits taking one checksum bit per 33 bits: csLen := len(entropyBits) / 33
checksumBits_div33(entropyBits) ==
    LET entropy == bitsToBytes(entropyBits)
        hashBits == bytesToBits(Sum256(entropy))
        csLen == Len(entropyBits) \div 33
    IN  IF csLen > Len(hashBits)
        THEN [panic |-> TRUE, bits |-> <<>>]
        ELSE [panic |-> FALSE, bits |-> SubSeq(hashBits, 1, csLen)]

\* checksumBits: bytesToBits(hash[:])[:csLen] panics (slice bounds out of
\* range) when csLen exceeds the 256 bits of the digest.
checksumBits(entropyBits) ==
    LET entropy == bitsToBytes(entropyBits)
        hashBits == bytesToBits(Sum256(entropy))
        csLen == Len(entropyBits) \div 32
    IN  IF csLen > Len(hashBits)
        THEN [panic |-> TRUE, bits |-> <<>>]
        ELSE [panic |-> FALSE, bits |-> SubSeq(hashBits, 1, csLen)]

\* strings.Join(words[lo..hi], " ")
RECURSIVE JoinRange(_, _, _)
JoinRange(ws, lo, hi) ==
    IF lo > hi THEN <<>>
    ELSE IF lo = hi THEN ws[lo]
    ELSE LET mid == (lo + hi) \div 2
         IN  JoinRange(ws, lo, mid) \o <<SP>> \o JoinRange(ws, mid + 1, hi)

\* The words generateMnemonic looks up: one per whole 11-bit group.
mnemonicWords(bs, wl) ==
    [i \in 1..(Len(bs) \div 11) |->
        wl[bitsToInt(SubSeq(bs, (i - 1) * 11 + 1, i * 11)) + 1]]

generateMnemonic(bs, wl) ==
    LET words == mnemonicWords(bs, wl) IN JoinRange(words, 1, Len(words))

\* generatePassphraseFromBinary without the os.Stat test: a missing file
\* is met by os.Open and reported as a read error
generatePassphraseFromBinary_noStat(fl, wl) ==
    IF ~fl.exists \/ ~fl.readable THEN [status |-> "fatal_read", text |-> <<>>]
    ELSE LET r == readBinaryFile(fl.content)
             c == checksumBits(r.bits)
         IN  IF r.err # "nil" THEN [status |-> "fatal_read", text |-> <<>>]
             ELSE IF c.panic THEN [status |-> "panic", text |-> <<>>]
             ELSE [status |-> "ok", text |-> generateMnemonic(r.bits \o c.bits, wl)]

\* generatePassphraseFromBinary on binary.txt as it is on disk: how the call
\* ends, and the passphrase it returns when it returns.
generatePassphraseFromBinary(fl, wl) ==
    IF ~fl.exists THEN [status |-> "fatal_notfound", text |-> <<>>]
    ELSE IF ~fl.readable THEN [status |-> "fatal_read", text |-> <<>>]
    ELSE LET r == readBinaryFile(fl.content)
             c == checksumBits(r.bits)
         IN  IF r.err # "nil" THEN [status |-> "fatal_read", text |-> <<>>]
             ELSE IF c.panic THEN [status |-> "panic", text |-> <<>>]
             ELSE [status |-> "ok", text |-> generateMnemonic(r.bits \o c.bits, wl)]

-----------------------------------------------------------------------------
\* The word list

Max(S) == CHOOSE x \in S : \A y \in S : x >= y

\* strings.TrimSpace
TrimSpace(s) ==
    LET keep == {i \in 1..Len(s) : s[i] \notin WhiteSpace}
    IN  IF keep = {} THEN <<>> ELSE SubSeq(s, Min(keep), Max(keep))

\* strings.TrimPrefix(s, BOM)
TrimBOM(s) == IF s # <<>> /\ s[1] = BOM THEN Tail(s) ELSE s

\* loadWordList over the lines of the embedded text
loadWordList(lines) ==
    LET trimmed == [k \in 1..Len(lines) |-> TrimBOM(TrimSpace(lines[k]))]
    IN  SelectSeq(trimmed, LAMBDA w : w # <<>>)

\* embed/english.txt: the 2048 words of the BIP-39 English list, lower-case
\* letters only, no two alike, one per line, the last line ended by a newline.
Word(i) ==
    <<Letters[(i \div 676) + 1], Letters[((i \div 26) % 26) + 1], Letters[(i % 26) + 1]>>

EnglishText == [k \in 1..2049 |-> IF k = 2049 THEN <<>> ELSE Word(k - 1)]

\* The same list saved with a byte-order mark, CR LF line ends and a blank line.
EnglishTextBOM ==
    [k \in 1..2050 |->
        IF k = 1 THEN <<BOM>> \o Word(0) \o <<CR>>
        ELSE IF k = 2 THEN <<SP, CR>>
        ELSE IF k = 2050 THEN <<>>
        ELSE Word(k - 2) \o <<CR>>]

\* Lists with a word missing and with a word too many.
ShortText == [k \in 1..2048 |-> IF k = 2048 THEN <<>> ELSE Word(k - 1)]
LongText == [k \in 1..2050 |-> IF k = 2050 THEN <<>> ELSE Word(k - 1)]

\* The lines strings.Split(wordListText, "\n") yields for each embedded text
TextNames == {"english", "english_bom", "short", "long"}
Embedded(name) ==
    CASE name = "english" -> EnglishText
      [] name = "english_bom" -> EnglishTextBOM
      [] name = "short" -> ShortText
      [] name = "long" -> LongText

\* What loadWordList returns for each embedded text
LoadedEnglish == loadWordList(EnglishText)
LoadedEnglishBOM == loadWordList(EnglishTextBOM)
LoadedShort == loadWordList(ShortText)
LoadedLong == loadWordList(LongText)

\* The list a value of the variable wordList stands for; empty before the load
Words(name) ==
    CASE name = "english" -> LoadedEnglish
      [] name = "english_bom" -> LoadedEnglishBOM
      [] name = "short" -> LoadedShort
      [] name = "long" -> LoadedLong
      [] OTHER -> <<>>

-----------------------------------------------------------------------------
\* -i: showWordInfo

\* strings.ToLower
LowerChar(c) ==
    IF \E k \in 1..26 : Upper[k] = c
    THEN Letters[CHOOSE k \in 1..26 : Upper[k] = c]
    ELSE c
ToLower(s) == [k \in 1..Len(s) |-> LowerChar(s[k])]

isBinary(s) == (\A k \in 1..Len(s) : s[k] \in {"0", "1"}) /\ Len(s) > 0

\* binaryToInt reading the first character as the lowest bit
RECURSIVE binaryToInt_lsbFirst(_)
binaryToInt_lsbFirst(bin) ==
    IF bin = <<>> THEN 0
    ELSE 2 * binaryToInt_lsbFirst(Tail(bin)) + (IF bin[1] = "1" THEN 1 ELSE 0)

\* n <<= 1; n |= 1 for every '1'; any other character counts as a zero bit
RECURSIVE binaryToInt(_)
binaryToInt(bin) ==
    IF bin = <<>> THEN 0
    ELSE 2 * binaryToInt(SubSeq(bin, 1, Len(bin) - 1)) + (IF bin[Len(bin)] = "1" THEN 1 ELSE 0)

\* fmt.Sprintf("%11s", s): s padded on the left with spaces
Sprintf11s(s) ==
    IF Len(s) >= 11 THEN s ELSE [k \in 1..(11 - Len(s)) |-> SP] \o s

\* fmt.Sprintf("%011s", s): s padded on the left with '0' to 11 characters
Sprintf011s(s) ==
    IF Len(s) >= 11 THEN s ELSE [k \in 1..(11 - Len(s)) |-> "0"] \o s

\* The digits of i in base 2, most significant first, without leading zeros
RECURSIVE FormatBase2(_)
FormatBase2(i) ==
    IF i < 2 THEN <<Digit(i = 1)>> ELSE Append(FormatBase2(i \div 2), Digit(i % 2 = 1))

\* fmt.Printf("%011b", i)
Sprintf011b(i) ==
    LET d == FormatBase2(i)
    IN  IF Len(d) >= 11 THEN d ELSE [k \in 1..(11 - Len(d)) |-> "0"] \o d

\* What showWordInfo prints. index is -1 and the strings empty where it prints none.
showWordInfo(rawInput, wl) ==
    LET input == TrimSpace(ToLower(rawInput))
        none == [kind |-> "none", binary |-> <<>>, index |-> -1, word |-> <<>>]
    IN  IF isBinary(input)
        THEN LET padded == IF Len(input) < 11 THEN Sprintf011s(input) ELSE input
                 idx == binaryToInt(padded)
             IN  IF Len(padded) # 11
                 THEN [none EXCEPT !.kind = "error_too_long"]
                 ELSE IF idx < 0 \/ idx >= 2048
                 THEN [none EXCEPT !.kind = "error_out_of_range"]
                 ELSE [kind |-> "binary", binary |-> padded, index |-> idx, word |-> wl[idx + 1]]
        ELSE LET hits == {k \in 1..Len(wl) : wl[k] = input}
             IN  IF hits = {}
                 THEN [none EXCEPT !.kind = "error_neither", !.word = input]
                 ELSE [kind |-> "word", binary |-> Sprintf011b(Min(hits) - 1),
                       index |-> Min(hits) - 1, word |-> input]

-----------------------------------------------------------------------------
\* Inputs of the model

EntropyLen == 32   \* make([]byte, 32)
WordCount == 2048  \* len(wordList) != 2048

Pattern(a, c, n) == [k \in 1..n |-> (a * k + c) % 256]

\* What rand.Read may fill the buffer with
Entropies ==
    {Pattern(0, 0, EntropyLen), Pattern(0, 255, EntropyLen), Pattern(37, 11, EntropyLen)}

Str101 == <<"1", "0", "1">>
StrZzz == <<"z", "z", "z">>

\* binary.txt before the invocation
NoFile == [exists |-> FALSE, readable |-> TRUE, writable |-> TRUE, content |-> <<>>]
FileOf(c) == [exists |-> TRUE, readable |-> TRUE, writable |-> TRUE, content |-> c]
Bits33 == [k \in 1..33 |-> Digit(k % 3 = 0)]
InitialFiles ==
    { NoFile,
      [NoFile EXCEPT !.writable = FALSE],
      FileOf(writeBinaryFile(Pattern(85, 3, EntropyLen))),
      FileOf(<<"#", SP, "x", LF>> \o writeBinaryFile(Pattern(1, 0, EntropyLen))),
      [FileOf(writeBinaryFile(Pattern(85, 3, EntropyLen))) EXCEPT !.readable = FALSE],
      [FileOf(writeBinaryFile(Pattern(85, 3, EntropyLen))) EXCEPT !.writable = FALSE],
      FileOf(<<>>),
      FileOf(<<"1", "0", "1", "0", "1", "0", "1", "0", LF>>),
      FileOf(Bits33) }

Flags ==
    [genBinary : BOOLEAN, useBinary : BOOLEAN, showHelp : BOOLEAN, showQRCode : BOOLEAN,
     inspectWord : {<<>>, Str101, StrZzz}]

codecIdle ==
    /\ buf = <<>> /\ bits = <<>> /\ back = <<>> /\ content = <<>>
    /\ loaded = [bits |-> <<>>, err |-> "nil"]
    /\ cs = [panic |-> FALSE, bits |-> <<>>]
    /\ phrase = <<>>
    /\ cpc = "idle"
    /\ origin = "none"

NoInfo == [kind |-> "none", binary |-> <<>>, index |-> -1, word |-> <<>>]

-----------------------------------------------------------------------------
\* main. main.go is this main without the -i flag (inspectWord always empty).

Init ==
    /\ flags \in Flags
    /\ wordListText \in TextNames
    /\ wordList = "unset"
    /\ file \in InitialFiles
    /\ pc = "start"
    /\ out = <<>>
    /\ exit = "running"
    /\ written = <<>>
    /\ codecIdle
    /\ token = <<>>
    /\ info = NoInfo

NoFlag ==
    /\ ~flags.genBinary /\ ~flags.useBinary /\ ~flags.showQRCode /\ ~flags.showHelp
    /\ flags.inspectWord = <<>>

Finish(how) == pc' = "done" /\ exit' = how

\* No flag at all: printHelp and return
NoFlagsHelp ==
    /\ pc = "start" /\ NoFlag
    /\ out' = Append(out, [kind |-> "help", text |-> <<>>])
    /\ Finish("ok")
    /\ UNCHANGED <<flags, wordListText, wordList, file, written, codecVars, inspectVars>>

\* -h: printHelp and return
ShowHelp ==
    /\ pc = "start" /\ ~NoFlag /\ flags.showHelp
    /\ out' = Append(out, [kind |-> "help", text |-> <<>>])
    /\ Finish("ok")
    /\ UNCHANGED <<flags, wordListText, wordList, file, written, codecVars, inspectVars>>

\* LoadWordList with the test len(wordList) < 2048
LoadWordList_atLeast ==
    /\ pc = "start" /\ ~NoFlag /\ ~flags.showHelp
    /\ wordList' = wordListText
    /\ IF Len(Words(wordList')) < WordCount
       THEN Finish("fatal_wordlist")
       ELSE pc' = "inspect" /\ exit' = exit
    /\ UNCHANGED <<flags, wordListText, file, out, written, codecVars, inspectVars>>

\* wordList := loadWordList(); log.Fatalf unless it has 2048 entries
LoadWordList ==
    /\ pc = "start" /\ ~NoFlag /\ ~flags.showHelp
    /\ wordList' = wordListText
    /\ IF Len(Words(wordList')) # WordCount
       THEN Finish("fatal_wordlist")
       ELSE pc' = "inspect" /\ exit' = exit
    /\ UNCHANGED <<flags, wordListText, file, out, written, codecVars, inspectVars>>

\* -i TOKEN: showWordInfo and return
InspectWord ==
    /\ pc = "inspect"
    /\ IF flags.inspectWord # <<>>
       THEN /\ info' = showWordInfo(flags.inspectWord, Words(wordList))
            /\ out' = Append(out, [kind |-> "inspect", text |-> flags.inspectWord])
            /\ Finish("ok")
       ELSE /\ pc' = "gen"
            /\ UNCHANGED <<info, out, exit>>
    /\ UNCHANGED <<flags, wordListText, wordList, file, written, codecVars, token>>

\* -b: 32 bytes from rand.Read into binary.txt
GenBinary ==
    /\ pc = "gen"
    /\ IF flags.genBinary
       THEN \/ /\ Finish("fatal_entropy")     \* rand.Read fails
               /\ UNCHANGED <<file, out, written>>
            \/ \E entropy \in Entropies :
                  IF ~file.writable
                  THEN /\ Finish("fatal_write")    \* os.Create fails
                       /\ UNCHANGED <<file, out, written>>
                  ELSE /\ file' = [file EXCEPT !.exists = TRUE,
                                               !.content = writeBinaryFile(entropy)]
                       /\ written' = Append(written, entropy)
                       /\ out' = Append(out, [kind |-> "generated", text |-> <<>>])
                       /\ pc' = "pass" /\ exit' = exit
       ELSE /\ pc' = "pass"
            /\ UNCHANGED <<file, out, written, exit>>
    /\ UNCHANGED <<flags, wordListText, wordList, codecVars, inspectVars>>

\* Passphrase reading binary.txt through os.Create, which empties it
Passphrase_truncating ==
    /\ pc = "pass"
    /\ IF flags.useBinary
       THEN LET r == generatePassphraseFromBinary(file, Words(wordList))
            IN  IF r.status = "ok"
                THEN /\ out' = Append(out, [kind |-> "passphrase", text |-> r.text])
                     /\ file' = [file EXCEPT !.content = <<>>]
                     /\ pc' = "qr" /\ exit' = exit
                ELSE /\ Finish(r.status)
                     /\ UNCHANGED <<out, file>>
       ELSE /\ pc' = "qr"
            /\ UNCHANGED <<out, exit, file>>
    /\ UNCHANGED <<flags, wordListText, wordList, written, codecVars, inspectVars>>

\* -p: print the passphrase of binary.txt
Passphrase ==
    /\ pc = "pass"
    /\ IF flags.useBinary
       THEN LET r == generatePassphraseFromBinary(file, Words(wordList))
            IN  IF r.status = "ok"
                THEN /\ out' = Append(out, [kind |-> "passphrase", text |-> r.text])
                     /\ pc' = "qr" /\ exit' = exit
                ELSE /\ Finish(r.status)
                     /\ out' = out
       ELSE /\ pc' = "qr"
            /\ UNCHANGED <<out, exit>>
    /\ UNCHANGED <<flags, wordListText, wordList, file, written, codecVars, inspectVars>>

\* -q: hand the passphrase of binary.txt to qrcode.New and print the code
QRCode ==
    /\ pc = "qr"
    /\ IF flags.showQRCode
       THEN LET r == generatePassphraseFromBinary(file, Words(wordList))
            IN  IF r.status = "ok"
                THEN \/ /\ out' = Append(out, [kind |-> "qr", text |-> r.text])
                        /\ Finish("ok")
                     \/ /\ out' = out          \* qrcode.New fails
                        /\ Finish("fatal_qr")
                ELSE /\ Finish(r.status)
                     /\ out' = out
       ELSE /\ Finish("ok")
            /\ out' = out
    /\ UNCHANGED <<flags, wordListText, wordList, file, written, codecVars, inspectVars>>

Next ==
    \/ NoFlagsHelp
    \/ ShowHelp
    \/ LoadWordList
    \/ InspectWord
    \/ GenBinary
    \/ Passphrase
    \/ QRCode

Spec == Init /\ [][Next]_vars

-----------------------------------------------------------------------------
\* The helper functions on their own: a byte buffer goes through bytesToBits,
\* bitsToBytes and writeBinaryFile, and a file content (written so, or edited
\* by hand) through readBinaryFile, checksumBits and generateMnemonic.

MaxBufLen == 33      \* byte buffers of up to this many bytes
MaxLineCount == 2    \* hand-made files of up to this many comment lines

Buffers ==
    {<<>>}
    \cup {<<b>> : b \in 0..255}
    \cup {Pattern(a, 1, n) : a \in {0, 85, 37, 255}, n \in 2..MaxBufLen}

\* n bits laid out by the loop of writeBinaryFile
Grouped(n, a) == LET bs == [k \in 1..n |-> (k * a) % 3 = 1] IN writeRange(bs, 1, n)
\* a line of n characters c, without its newline
Line(n, c) == [k \in 1..n |-> c]
Comments(n) == [k \in 1..(2 * n) |-> IF k % 2 = 1 THEN "#" ELSE LF]

HandFiles ==
    {Grouped(n, a) : n \in {0, 1, 31, 32, 33, 64, 96, 250, 256, 257, 288, 8192, 8224}, a \in {1, 2}}
    \cup {Comments(n) \o Grouped(256, 1) \o <<"e", "o", "f">> : n \in 0..MaxLineCount}
    \cup {Comments(n) \o Line(MaxScanTokenSize - 1, "#") \o <<LF>> \o Grouped(256, 1) :
             n \in 0..MaxLineCount}
    \cup {Comments(n) \o Line(MaxScanTokenSize, "#") \o <<LF>> \o Grouped(256, 1) :
             n \in 0..MaxLineCount}
    \cup {Grouped(64, 1) \o Line(MaxScanTokenSize, SP) \o Grouped(64, 2)}

IdleFlags ==
    [genBinary |-> FALSE, useBinary |-> FALSE, showHelp |-> FALSE, showQRCode |-> FALSE,
     inspectWord |-> <<>>]

mainIdle ==
    /\ flags = IdleFlags
    /\ wordListText = "english"
    /\ wordList = "english"
    /\ file = NoFile
    /\ pc = "done"
    /\ out = <<>>
    /\ exit = "ok"
    /\ written = <<>>

InitCodec ==
    /\ mainIdle
    /\ token = <<>> /\ info = NoInfo
    /\ bits = <<>> /\ back = <<>>
    /\ loaded = [bits |-> <<>>, err |-> "nil"]
    /\ cs = [panic |-> FALSE, bits |-> <<>>]
    /\ phrase = <<>>
    /\ \/ buf \in Buffers /\ content = <<>> /\ cpc = "buf" /\ origin = "buf"
       \/ buf = <<>> /\ content \in HandFiles /\ cpc = "file" /\ origin = "file"

BytesToBits ==
    /\ cpc = "buf"
    /\ bits' = bytesToBits(buf)
    /\ cpc' = "bits"
    /\ UNCHANGED <<mainVars, inspectVars, buf, back, content, loaded, cs, phrase, origin>>

BitsToBytes ==
    /\ cpc = "bits"
    /\ back' = bitsToBytes(bits)
    /\ cpc' = "back"
    /\ UNCHANGED <<mainVars, inspectVars, buf, bits, content, loaded, cs, phrase, origin>>

WriteBinaryFile ==
    /\ cpc = "back"
    /\ content' = writeBinaryFile(buf)
    /\ cpc' = "file"
    /\ UNCHANGED <<mainVars, inspectVars, buf, bits, back, loaded, cs, phrase, origin>>

ReadBinaryFile ==
    /\ cpc = "file"
    /\ loaded' = readBinaryFile(content)
    /\ cpc' = "read"
    /\ UNCHANGED <<mainVars, inspectVars, buf, bits, back, content, cs, phrase, origin>>

\* generatePassphraseFromBinary goes on only when readBinaryFile gave no error
ChecksumBits ==
    /\ cpc = "read" /\ loaded.err = "nil"
    /\ cs' = checksumBits(loaded.bits)
    /\ cpc' = "sum"
    /\ UNCHANGED <<mainVars, inspectVars, buf, bits, back, content, loaded, phrase, origin>>

GenerateMnemonic ==
    /\ cpc = "sum" /\ ~cs.panic
    /\ phrase' = generateMnemonic(loaded.bits \o cs.bits, Words(wordList))
    /\ cpc' = "words"
    /\ UNCHANGED <<mainVars, inspectVars, buf, bits, back, content, loaded, cs, origin>>

NextCodec ==
    \/ BytesToBits
    \/ BitsToBytes
    \/ WriteBinaryFile
    \/ ReadBinaryFile
    \/ ChecksumBits
    \/ GenerateMnemonic

SpecCodec == InitCodec /\ [][NextCodec]_vars

-----------------------------------------------------------------------------
\* showWordInfo on its own

MaxBinLen == 13   \* binary tokens of up to this many characters

BinaryStrings(n) == [1..n -> {"0", "1"}]
ToUpper(s) == [k \in 1..Len(s) |-> IF \E j \in 1..26 : Letters[j] = s[k]
                                     THEN Upper[CHOOSE j \in 1..26 : Letters[j] = s[k]]
                                     ELSE s[k]]

Tokens ==
    UNION {BinaryStrings(n) : n \in 1..11}
    \cup {[k \in 1..n |-> Digit(k % a = 0)] : n \in 12..MaxBinLen, a \in 1..3}
    \cup {Word(i) : i \in 0..(WordCount - 1)}
    \cup {<<SP>> \o ToUpper(Word(i)) \o <<SP, LF>> : i \in {0, 5, 700, 2047}}
    \cup {<<TAB>> \o Str101 \o <<SP>>, StrZzz, <<"1", "0", "a">>, <<"2">>, <<"1", SP, "1">>,
          <<"a", "b">>, Word(WordCount), <<SP>>}

InitInspect ==
    /\ mainIdle
    /\ codecIdle
    /\ token \in Tokens
    /\ info = NoInfo

ShowWordInfo ==
    /\ info.kind = "none"
    /\ info' = showWordInfo(token, Words(wordList))
    /\ UNCHANGED <<mainVars, codecVars, token>>

NextInspect == ShowWordInfo

SpecInspect == InitInspect /\ [][NextInspect]_vars

-----------------------------------------------------------------------------
\* Properties of the helper functions (SpecCodec)

IsDigit(c) == c \in {"0", "1"}
\* the words of a passphrase: one more than its separating spaces
NumWords(p) == IF p = <<>> THEN 0 ELSE 1 + Cardinality({k \in 1..Len(p) : p[k] = SP})

Converted == origin = "buf" /\ cpc \notin {"buf", "bits"}
Written == origin = "buf" /\ cpc \notin {"buf", "bits", "back"}
Read == cpc \in {"read", "sum", "words"}
Summed == cpc \in {"sum", "words"}

\* C1: bitsToBytes(bytesToBits(B)) = B for every byte buffer B, the empty one
\* included; bytesToBits gives 8 * len(B) bits, each byte's top bit first.
C1_RoundTrip ==
    Converted =>
        /\ back = buf
        /\ Len(bits) = 8 * Len(buf)
        /\ \A j \in 1..Len(buf) :
              /\ bits[8 * j - 7] = (buf[j] >= 128)
              /\ bits[8 * j] = (buf[j] % 2 = 1)

C1_Witness ==
    /\ Converted /\ Len(buf) = EntropyLen /\ buf[1] = 38 /\ buf[2] = 75
    /\ back = buf /\ Len(bits) = 256

\* What C2 says of a loaded bit sequence of n bits once its checksum is taken
ChecksumShape(n) ==
    /\ ~cs.panic
    /\ Len(cs.bits) = n \div 32
    /\ (n + Len(cs.bits)) % 11 = 0
    /\ cpc = "words" => NumWords(phrase) * 11 = n + Len(cs.bits)
    /\ n = 256 =>
          /\ Len(cs.bits) = 8
          /\ Len(loaded.bits \o cs.bits) = 264
          /\ cpc = "words" => NumWords(phrase) = 24

\* C2 as claimed: for every loaded bit length n that is a positive multiple
\* of 32 the checksum has n/32 bits and the n + n/32 combined bits are whole
\* 11-bit groups, one word each; 256 bits give 8 checksum bits, 264 combined
\* bits and 24 words.
C2_AnyMultipleOf32 ==
    LET n == Len(loaded.bits)
    IN  (Summed /\ n > 0 /\ n % 32 = 0) => ChecksumShape(n)

\* C2 as amended: the same for n up to 8192, where n/32 does not exceed the
\* 256 bits of the SHA-256 digest.
C2_UpToDigestLength ==
    LET n == Len(loaded.bits)
    IN  (Summed /\ n > 0 /\ n % 32 = 0 /\ n <= 8192) => ChecksumShape(n)

C2_Witness ==
    /\ cpc = "words" /\ Len(loaded.bits) = 256
    /\ Len(cs.bits) = 8 /\ NumWords(phrase) = 24

\* The layout C7 describes, but for the final newline: only '0', '1', ' ' and
\* newline; before every space 11 bits, never 12 bits in a row; a newline
\* inside the file ends a line of 6 groups.
DigitsBefore(c, p, n) == p > n /\ \A k \in (p - n)..(p - 1) : IsDigit(c[k])
GroupedLayout(c) ==
    /\ \A p \in 1..Len(c) : c[p] \in {"0", "1", SP, LF}
    /\ \A p \in 1..Len(c) : c[p] = SP =>
          /\ DigitsBefore(c, p, 11)
          /\ p < Len(c) => c[p + 1] # SP
    /\ \A p \in 12..Len(c) : ~DigitsBefore(c, p + 1, 12)
    /\ \A p \in 1..Len(c) : (c[p] = LF /\ p < Len(c)) =>
          /\ p >= 73 /\ c[p - 1] = SP
          /\ Cardinality({k \in (p - 72)..(p - 1) : IsDigit(c[k])}) = 66
          /\ \A k \in (p - 72)..(p - 1) : c[k] # LF

C8_ReadsEveryBit ==
    Read =>
        /\ LET d == SelectSeq(content, IsDigit)
           IN  /\ Len(loaded.bits) = Len(d)
               /\ \A k \in 1..Len(d) : loaded.bits[k] = (d[k] = "1")
        /\ origin = "buf" => loaded.bits = bytesToBits(buf)

-----------------------------------------------------------------------------
\* Properties of one invocation (Spec)

\* the places in the output where a mnemonic was given out
MnemonicEvents == {k \in DOMAIN out : out[k].kind \in {"passphrase", "qr"}}

DerivationsAgree == \A j, k \in MnemonicEvents : out[j].text = out[k].text
DerivationKeeps ==
    pc \in {"pass", "qr"} =>
        (file' = file /\ wordList' = wordList /\ wordListText' = wordListText)

\* C3: deriving the mnemonic is a function of the contents of binary.txt and
\* the word list: the -p and the -q derivation of one invocation, each reading
\* binary.txt anew, give the same words, and no derivation changes the file,
\* the word list or the embedded text.
C3_Deterministic == []DerivationsAgree /\ [][DerivationKeeps]_vars

C3_Witness ==
    /\ pc = "done" /\ flags.genBinary
    /\ Len(out) = 3 /\ out[2].kind = "passphrase" /\ out[3].kind = "qr"
    /\ out[2].text = out[3].text /\ NumWords(out[3].text) = 24

BadWordList == Len(Words(wordListText)) # WordCount

\* no entropy generated, binary.txt not written, nothing derived or inspected
NothingDone ==
    /\ written = <<>>
    /\ info = NoInfo
    /\ \A k \in DOMAIN out : out[k].kind = "help"

\* C6 as claimed: with a word list that has not exactly 2048 entries every
\* combination of flags ends in the fatal configuration error, and nothing is
\* generated, written, derived or inspected.
C6_AlwaysFatal ==
    BadWordList =>
        /\ pc = "done" => exit = "fatal_wordlist"
        /\ NothingDone

\* C6 as amended: the same for every combination of flags that asks for an
\* operation and has no -h; with -h or with no flag at all the help is
\* printed and the invocation ends normally, the list never loaded.
C6_FatalUnlessHelp ==
    BadWordList =>
        /\ pc = "done" =>
              exit = (IF NoFlag \/ flags.showHelp THEN "ok" ELSE "fatal_wordlist")
        /\ NothingDone

C6_Witness ==
    /\ BadWordList /\ pc = "done" /\ exit = "fatal_wordlist"
    /\ flags.genBinary /\ flags.useBinary /\ ~file.exists /\ out = <<>>

\* C9: no mnemonic is given out for a loaded bit sequence whose length is not
\* a positive multiple of 32; a binary.txt without any '0' or '1' is reported.
C9_RejectsBadLength ==
    MnemonicEvents # {} =>
        LET n == Len(readBinaryFile(file.content).bits)
        IN  n > 0 /\ n % 32 = 0

\* the mnemonic of an entropy buffer
ExpectedMnemonic(e) ==
    LET b == bytesToBits(e)
    IN  generateMnemonic(b \o checksumBits(b).bits, Words(wordList))

Rank(kind) ==
    CASE kind = "generated" -> 1
      [] kind = "passphrase" -> 2
      [] kind = "qr" -> 3
      [] OTHER -> 0

\* What C10 says of every invocation: -b, then -p, then -q; a mnemonic only
\* of an existing binary.txt; with -b, the mnemonic of the entropy just written.
StepsInOrder ==
    /\ \A j, k \in DOMAIN out : j < k => Rank(out[j].kind) < Rank(out[k].kind)
    /\ MnemonicEvents # {} => file.exists
    /\ \A k \in MnemonicEvents :
          flags.genBinary =>
              /\ written # <<>>
              /\ out[k].text = ExpectedMnemonic(written[Len(written)])

\* -p or -q, no -b, no binary.txt, the word list being the 2048 words shipped
DeriveWithoutFile ==
    /\ flags.useBinary \/ flags.showQRCode
    /\ ~flags.genBinary
    /\ ~file.exists
    /\ ~BadWordList

NotFoundEnd ==
    /\ exit = "fatal_notfound"
    /\ MnemonicEvents = {}
    /\ ~file.exists

\* C10 as claimed: the steps run in the order -b, -p, -q, a mnemonic is given
\* out only of an existing binary.txt, with -b that of the entropy just
\* written, and with -p or -q but no -b and no binary.txt the invocation ends
\* in the fatal not-found error, no mnemonic given out and no binary.txt made.
C10_NotFoundAlways ==
    /\ StepsInOrder
    /\ (pc = "done" /\ DeriveWithoutFile) => NotFoundEnd

\* C10 as amended: the same, the not-found end being that of an invocation
\* without -h and without an -i token; with -h the help is printed, with -i
\* the token is inspected, and the invocation ends normally.
C10_NotFoundUnlessHelp ==
    /\ StepsInOrder
    /\ (pc = "done" /\ DeriveWithoutFile /\ ~flags.showHelp /\ flags.inspectWord = <<>>)
          => NotFoundEnd

C10_Witness ==
    /\ pc = "done" /\ DeriveWithoutFile /\ ~flags.showHelp /\ flags.inspectWord = <<>>
    /\ flags.useBinary /\ flags.showQRCode /\ file.writable
    /\ exit = "fatal_notfound" /\ out = <<>>

-----------------------------------------------------------------------------
\* Properties of showWordInfo (SpecInspect)

\* the 11-character binary representation of i
Bin11(i) == [k \in 1..11 |-> Digit((i \div (2 ^ (11 - k))) % 2 = 1)]

\* C4: for every index i of the 2048-word list, showWordInfo(word[i]) reports
\* index i and the 11-character zero-padded binary of i, and showWordInfo of
\* that binary reports index i and word[i].
C4_RoundTrip ==
    info.kind # "none" =>
        LET word == Words(wordList)
        IN  /\ \A i \in 0..(WordCount - 1) :
                  token = word[i + 1] =>
                      /\ info.kind = "word"
                      /\ info.index = i
                      /\ info.binary = Bin11(i)
            /\ Len(token) = 11 =>
                  \A i \in 0..(WordCount - 1) :
                      token = Bin11(i) =>
                          /\ info.kind = "binary"
                          /\ info.index = i
                          /\ info.word = word[i + 1]

C4_Witness ==
    /\ token = Bin11(1365) /\ info.kind = "binary"
    /\ info.index = 1365 /\ info.word = Word(1365)

\* C5: a binary literal of more than 11 characters is rejected, no index and
\* no word printed; one of 1 to 11 characters is never rejected: it is padded
\* on the left with zeros to 11 characters, and the index and the word printed
\* are those of the padded value.
C5_PadOrReject ==
    (info.kind # "none" /\ isBinary(token)) =>
        IF Len(token) > 11
        THEN /\ info.kind \in {"error_too_long", "error_out_of_range"}
             /\ info.index = -1 /\ info.word = <<>> /\ info.binary = <<>>
        ELSE /\ info.kind = "binary"
             /\ info.binary = [k \in 1..(11 - Len(token)) |-> "0"] \o token
             /\ info.index \in 0..2047
             /\ Bin11(info.index) = info.binary
             /\ info.word = Words(wordList)[info.index + 1]

C5_Witness ==
    /\ token = Str101
    /\ info.kind = "binary" /\ info.index = 5 /\ info.word = Word(5)
    /\ info.binary = <<"0", "0", "0", "0", "0", "0", "0", "0", "1", "0", "1">>

=============================================================================
